---- MODULE Spec2Model ----
(***************************************************************************)
(* A model of caputils.py: the format-transparent capture reader           *)
(* (pcap_reader, PcapIterable.__iter__), the metadata summarizer wrapper   *)
(* (capinfos, count, get_start_end) and the time-alignment engine          *)
(* (shift_time, mergecap, merge_time_aligned).                             *)
(*                                                                         *)
(* The reader is a generator-based context manager, so it is modelled as   *)
(* a small step machine (probe, open, parse, yield, close).  The other     *)
(* operations are synchronous and are modelled as one action each; the     *)
(* external tools and the file system they act on are drawn with \E.       *)
(*                                                                         *)
(* Text is a sequence of symbols.  A symbol is one character ("-", "1",    *)
(* ",", "\t", "\n") or one field name of the summarizer's header, which    *)
(* contains no separator and is therefore kept as one symbol.              *)
(* Times are whole tenths of a second; a position is PosNum / PosDen.      *)
(***************************************************************************)
EXTENDS Integers, Sequences, FiniteSets, TLC

VARIABLES
    op,       \* the operation in progress or last completed
    args,     \* its arguments
    env,      \* the environment it ran in (tool on PATH, tool behaviour)
    fs,       \* the capture files by path, after the operation
    calls,    \* the external processes the operation spawned, in order
    result,   \* what the operation returned or raised
    file,     \* pcap_reader: the file behind the path
    pc,       \* pcap_reader: position of the generator
    open,     \* pcap_reader: the streams currently open
    parsers,  \* pcap_reader: the format parsers constructed on fd, in order
    rewinds,  \* pcap_reader: number of fd.seek(0, 0) calls
    reader,   \* pcap_reader: the reader handed to the consuming scope
    user,     \* pcap_reader: who consumes the scope
    nread,    \* pcap_reader: records the consumer has taken
    raised    \* pcap_reader: the error raised inside the consuming scope

vars == <<op, args, env, fs, calls, result,
          file, pc, open, parsers, rewinds, reader, user, nread, raised>>

onceVars == <<args, env, fs, calls>>

----
\* Bounds of the model.
MaxRecs == 2      \* records in a file read by pcap_reader
MaxTime == 2      \* largest timestamp of a capture, in tenths of a second
MaxLen == 2       \* records in a capture handed to the time-alignment engine
MaxPaths == 3     \* paths handed to capinfos
PosDen == 2       \* a position is k / PosDen

----
\* Generic helpers.
None == <<>>
Some(v) == <<v>>
Val(o) == o[1]

Last(s) == s[Len(s)]
Front(s) == SubSeq(s, 1, Len(s) - 1)
SeqsUpTo(S, n) == UNION {[1..k -> S] : k \in 0..n}
Range(s) == {s[i] : i \in 1..Len(s)}
MinOf(S) == CHOOSE x \in S : \A y \in S : x <= y
MaxOf(S) == CHOOSE x \in S : \A y \in S : x >= y

Err(kind, origin) == [kind |-> kind, origin |-> origin]
NoErr == Err("none", "none")

Ok(v) == [status |-> "ok", err |-> NoErr, value |-> v]
Raise(kind, origin) == [status |-> "error", err |-> Err(kind, origin), value |-> None]
NoResult == [status |-> "none", err |-> NoErr, value |-> None]

----
\* pcap_reader (lines 16-34), PcapIterable.__iter__ (42-45), the streaming
\* branch of count (105-108).

\* What a file can be: gzip-compressed or not (or a damaged gzip stream),
\* FormatA (pcap), FormatB (pcapng), neither, or too short for a header.
Files ==
    [exists : BOOLEAN, gz : {"yes", "no", "damaged"},
     fmt : {"A", "B", "none", "short"}, recs : 0..MaxRecs]

NoFile == [exists |-> FALSE, gz |-> "no", fmt |-> "none", recs |-> 0]

\* Errors that can be raised inside the consuming scope: by the caller's own
\* code in a with block, by the reader while a record is read, or the
\* GeneratorExit a discarded PcapIterable iterator gets at its yield.
ConsumerErrors(u) ==
    IF u = "with" THEN {Err("ValueError", "consumer"), Err("KeyError", "consumer")}
    ELSE IF u = "iter"
         THEN {Err("GeneratorExit", "consumer"), Err("ValueError", "consumer"),
               Err("NeedData", "consumer")}
         ELSE {Err("NeedData", "consumer"), Err("ValueError", "consumer")}

\* with gzip.open(path, "rb") as tmp: the probe stream is closed when the
\* with block is left, whether tmp.read(1) returned or raised.
ProbeExit(streams) == streams \ {"tmp"}

\* A reader that forgets fd.close().
CloseFd_forgotten(streams) == streams

\* finally: fd.close()
CloseFd(streams) == streams \ {"fd"}

\* dpkt.pcap.Reader(fd) and dpkt.pcapng.Reader(fd) on the file: the reader, the
\* "not this format" ValueError, or another error (a header cut short).
ParseAs(f, format) ==
    IF f.fmt = format THEN "reader"
    ELSE IF f.fmt = "short" THEN "NeedData"
    ELSE "ValueError"

ReaderIdle ==
    /\ file = NoFile
    /\ pc = "idle"
    /\ open = {}
    /\ parsers = <<>>
    /\ rewinds = 0
    /\ reader = "none"
    /\ user = "none"
    /\ nread = 0
    /\ raised = NoErr

ResetReader ==
    /\ file' = NoFile
    /\ pc' = "idle"
    /\ open' = {}
    /\ parsers' = <<>>
    /\ rewinds' = 0
    /\ reader' = "none"
    /\ user' = "none"
    /\ nread' = 0
    /\ raised' = NoErr

\* The paths the operations are given, and what a path holds: nothing, or a
\* capture, its timestamps in units of 1 / scale tenths of a second.
AllPaths == {"left", "right", "out", "tmp"}
Missing == [present |-> FALSE, scale |-> 1, ts |-> <<>>]
NoWorld == [p \in AllPaths |-> Missing]

NoEnv == [toolAvail |-> TRUE]

OnceIdle ==
    /\ args = <<>>
    /\ env = NoEnv
    /\ fs = NoWorld
    /\ calls = <<>>

ResetOnce ==
    /\ args' = <<>>
    /\ env' = NoEnv
    /\ fs' = NoWorld
    /\ calls' = <<>>

\* No operation has been started: one may start.
AtRest == op = "none"

\* Entering pcap_reader: from a with statement, or from the first next() of a
\* PcapIterable iterator.
StartReader(name, u, f) ==
    /\ op' = name
    /\ result' = NoResult
    /\ file' = f
    /\ user' = u
    /\ pc' = "probe"
    /\ open' = {}
    /\ parsers' = <<>>
    /\ rewinds' = 0
    /\ reader' = "none"
    /\ nread' = 0
    /\ raised' = NoErr

ReaderCall ==
    /\ AtRest
    /\ \E f \in Files : StartReader("pcap_reader", "with", f)
    /\ ResetOnce

IterCall ==
    /\ AtRest
    /\ \E f \in Files : StartReader("PcapIterable.__iter__", "iter", f)
    /\ ResetOnce

\* Line 22: gzip.open(path, "rb") opens the file; a missing file raises here,
\* with nothing open.
ProbeOpen ==
    /\ pc = "probe"
    /\ IF file.exists
       THEN /\ open' = open \cup {"tmp"}
            /\ pc' = "probed"
            /\ UNCHANGED result
       ELSE /\ pc' = "closed"
            /\ result' = Raise("FileNotFoundError", "gzip")
            /\ UNCHANGED open
    /\ UNCHANGED <<op, file, parsers, rewinds, reader, user, nread, raised>>
    /\ UNCHANGED onceVars

\* Lines 23-26: tmp.read(1), leaving the with block, and opening fd through
\* gzip or, on BadGzipFile, raw.  Any other read error propagates.
ProbeRead ==
    /\ pc = "probed"
    /\ IF file.gz = "damaged"
       THEN /\ open' = ProbeExit(open)
            /\ pc' = "closed"
            /\ result' = Raise("EOFError", "gzip")
       ELSE /\ open' = ProbeExit(open) \cup {"fd"}
            /\ pc' = "opened"
            /\ UNCHANGED result
    /\ UNCHANGED <<op, file, parsers, rewinds, reader, user, nread, raised>>
    /\ UNCHANGED onceVars

\* Lines 28-31, 33-34: construct the FormatA parser; hand it over, or on
\* ValueError rewind, or on anything else close and propagate.
ParseA ==
    /\ pc = "opened"
    /\ parsers' = Append(parsers, "A")
    /\ LET r == ParseAs(file, "A") IN
       IF r = "reader"
       THEN /\ reader' = "A"
            /\ pc' = "yielded"
            /\ UNCHANGED <<rewinds, open, result>>
       ELSE IF r = "ValueError"
       THEN /\ rewinds' = rewinds + 1
            /\ pc' = "fallback"
            /\ UNCHANGED <<reader, open, result>>
       ELSE /\ open' = CloseFd(open)
            /\ pc' = "closed"
            /\ result' = Raise(r, "pcap")
            /\ UNCHANGED <<reader, rewinds>>
    /\ UNCHANGED <<op, file, user, nread, raised>>
    /\ UNCHANGED onceVars

\* Lines 32-34: construct the FormatB parser after the rewind; hand it over,
\* or close and propagate its error.
ParseB ==
    /\ pc = "fallback"
    /\ parsers' = Append(parsers, "B")
    /\ LET r == ParseAs(file, "B") IN
       IF r = "reader"
       THEN /\ reader' = "B"
            /\ pc' = "yielded"
            /\ UNCHANGED <<open, result>>
       ELSE /\ open' = CloseFd(open)
            /\ pc' = "closed"
            /\ result' = Raise(r, "pcapng")
            /\ UNCHANGED reader
    /\ UNCHANGED <<op, file, rewinds, user, nread, raised>>
    /\ UNCHANGED onceVars

\* The consumer takes the next record (line 44, line 108).
Read ==
    /\ pc = "yielded"
    /\ nread < file.recs
    /\ nread' = nread + 1
    /\ UNCHANGED <<op, result, file, pc, open, parsers, rewinds, reader, user, raised>>
    /\ UNCHANGED onceVars

\* The consuming scope is left without an error: the generator resumes after
\* its yield and runs finally.  A with block can be left at any point (break,
\* return); the loops of __iter__ and count leave when the records are
\* exhausted, and count returns how many it saw.
Leave ==
    /\ pc = "yielded"
    /\ user = "with" \/ nread = file.recs
    /\ open' = CloseFd(open)
    /\ pc' = "closed"
    /\ result' = Ok(IF user = "count" THEN Some(nread) ELSE None)
    /\ UNCHANGED <<op, file, parsers, rewinds, reader, user, nread, raised>>
    /\ UNCHANGED onceVars

\* An error is raised inside the consuming scope and thrown into the generator
\* at its yield.  At the first yield (line 29, inside try) a ValueError is
\* caught by line 30: the stream is rewound and line 32 runs.  Everything
\* else, and every error at the second yield (line 32, inside the handler),
\* runs finally and propagates.
Throw ==
    /\ pc = "yielded"
    /\ \E e \in ConsumerErrors(user) :
        /\ raised' = e
        /\ IF reader = "A" /\ e.kind = "ValueError"
           THEN /\ rewinds' = rewinds + 1
                /\ pc' = "fallback"
                /\ UNCHANGED <<open, result>>
           ELSE /\ open' = CloseFd(open)
                /\ pc' = "closed"
                /\ result' = [status |-> "error", err |-> e, value |-> None]
                /\ UNCHANGED rewinds
    /\ UNCHANGED <<op, file, parsers, reader, user, nread>>
    /\ UNCHANGED onceVars

----
\* C4: when the pcap_reader scope has ended (normally, by an early exit, by a
\* parser's error, by both parsers rejecting the stream or by an error of the
\* consuming scope) no stream it opened, the gzip probe included, is open.
C4_StreamClosed == pc = "closed" => open = {}

\* A discarded PcapIterable iterator over a FormatB file that still had records:
\* both parsers ran, the scope ended on GeneratorExit and fd is closed.
C4_Witness ==
    /\ pc = "closed"
    /\ user = "iter"
    /\ reader = "B"
    /\ raised.kind = "GeneratorExit"
    /\ nread < file.recs
    /\ open = {}

\* C10: once a reader has been handed to the caller no second parser is
\* constructed on the handle and the stream is not rewound again, and an error
\* raised by the consumer leaves the scope unchanged.
C10_DetectedOnce ==
    reader # "none" =>
        /\ parsers = (IF reader = "A" THEN <<"A">> ELSE <<"A", "B">>)
        /\ rewinds = (IF reader = "A" THEN 0 ELSE 1)
        /\ (pc = "closed" /\ raised # NoErr => result.err = raised)

----
\* Text: str.split, str.splitlines, str.replace, int() and float() as
\* caputils.py uses them.

TAB == "\t"
NL == "\n"

DigitChars == <<"0", "1", "2", "3", "4", "5", "6", "7", "8", "9">>
IsDigit(c) == c \in Range(DigitChars)
DigitVal(c) == CHOOSE d \in 0..9 : DigitChars[d + 1] = c

\* str.split(sep): always at least one part, empty parts kept.
RECURSIVE Split(_, _)
Split(s, sep) ==
    IF \A i \in 1..Len(s) : s[i] # sep
    THEN <<s>>
    ELSE LET k == MinOf({i \in 1..Len(s) : s[i] = sep})
         IN  <<SubSeq(s, 1, k - 1)>> \o Split(SubSeq(s, k + 1, Len(s)), sep)

\* str.splitlines(): no line for the text after a final line break, and no
\* line at all for the empty text.
SplitLines(s) ==
    IF s = <<>> THEN <<>>
    ELSE LET parts == Split(s, NL)
         IN  IF Last(parts) = <<>> THEN Front(parts) ELSE parts

\* val.replace(",", ".")
Replace(s, a, b) == [i \in 1..Len(s) |-> IF s[i] = a THEN b ELSE s[i]]

RECURSIVE DigitsVal(_)
DigitsVal(s) == IF s = <<>> THEN 0 ELSE DigitsVal(Front(s)) * 10 + DigitVal(Last(s))

\* int(text): None stands for ValueError.
ParseInt(s) ==
    IF s # <<>> /\ \A i \in 1..Len(s) : IsDigit(s[i])
    THEN Some(DigitsVal(s))
    ELSE None

\* float(text), in tenths: digits, optionally a point and one more digit.
\* None stands for ValueError.
ParseFloat(s) ==
    LET parts == Split(s, ".")
        whole == parts[1]
        frac == IF Len(parts) = 2 THEN parts[2] ELSE <<>>
    IN  IF /\ Len(parts) <= 2
           /\ Len(frac) <= 1
           /\ Len(whole) + Len(frac) >= 1
           /\ \A i \in 1..Len(whole) : IsDigit(whole[i])
           /\ \A i \in 1..Len(frac) : IsDigit(frac[i])
        THEN Some(DigitsVal(whole) * 10 + DigitsVal(frac))
        ELSE None

\* Lines 117-118: parse(val) of get_start_end.
parse(val) == ParseFloat(Replace(val, ",", "."))

----
\* capinfos (lines 57-101).

Key(name) == <<name>>
Dash == "-"
OptT == <<"-", "T">>
OptM == <<"-", "M">>

\* any() in place of all().
OptsValid_any(opts) ==
    opts = <<>> \/ \E i \in 1..Len(opts) : opts[i] # <<>> /\ opts[i][1] = Dash

\* Line 68: all(opt.startswith("-") for opt in opts)
OptsValid(opts) == \A i \in 1..Len(opts) : opts[i] # <<>> /\ opts[i][1] = Dash

\* Lines 71-74: -T and -M are appended unless the caller gave them.
AddOpt(opts, o) == IF o \in Range(opts) THEN opts ELSE Append(opts, o)
FinalOpts(opts) == AddOpt(AddOpt(opts, OptT), OptM)

\* Lines 60-66: a list of paths is taken as it is, a bare path is wrapped.
PathList(path) == path.items

\* Line 95: {k: v for k, v in zip(keys, values)}: pairs up to the shorter
\* length, the last value of a repeated key wins.
Info(keys, values) ==
    LET n == IF Len(keys) < Len(values) THEN Len(keys) ELSE Len(values)
    IN  [k \in {keys[i] : i \in 1..n} |->
            values[MaxOf({i \in 1..n : keys[i] = k})]]

\* Lines 89-96: one record per line after the header.
Infos(out) ==
    LET lines == SplitLines(out)
        keys == Split(lines[1], TAB)
    IN  [i \in 1..(Len(lines) - 1) |-> Info(keys, Split(lines[i + 1], TAB))]

\* Line 86: the output is rejected when empty, shorter than two lines or
\* without a tab.
Malformed(out) ==
    \/ out = <<>>
    \/ Len(SplitLines(out)) < 2
    \/ TAB \notin Range(out)

\* A collection whatever the number of records.
ReturnShape_alwaysList(infos) == [isList |-> TRUE, infos |-> infos]

\* Lines 98-101: a collection for more than one record, else the bare record.
ReturnShape(infos) ==
    IF Len(infos) > 1
    THEN [isList |-> TRUE, infos |-> infos]
    ELSE [isList |-> FALSE, infos |-> <<infos[1]>>]

\* One subprocess.run / subprocess.check_call: the tool, whether its
\* executable was found and a process started, and the command line.
Spawn(tool, started, a) == [tool |-> tool, started |-> started, argv |-> a]

\* The summarizer's side: a table is a header and rows of fields; it is
\* written one line per row, fields separated by tabs.
RECURSIVE JoinWith(_, _)
JoinWith(parts, sep) ==
    IF parts = <<>> THEN <<>>
    ELSE IF Len(parts) = 1 THEN parts[1]
    ELSE parts[1] \o <<sep>> \o JoinWith(Tail(parts), sep)

RECURSIVE Lines(_)
Lines(rows) ==
    IF rows = <<>> THEN <<>>
    ELSE JoinWith(rows[1], TAB) \o <<NL>> \o Lines(Tail(rows))

\* What running a tool does; table is what the summarizer meant to print
\* (empty when it printed no table).
Absent == [kind |-> "absent", stdout |-> <<>>, table |-> <<>>]
Failed == [kind |-> "fail", stdout |-> <<>>, table |-> <<>>]
Output(text) == [kind |-> "out", stdout |-> text, table |-> <<>>]
Printed(t) == [kind |-> "out", stdout |-> Lines(t), table |-> t]

\* The captures the summarizer, the time-rewrite tool and the merge tool act
\* on, and those tools as caputils.py relies on them.

\* A capture's records are stored in non-decreasing timestamp order.
Captures ==
    {ts \in SeqsUpTo(0..MaxTime, MaxLen) : \A i \in 1..(Len(ts) - 1) : ts[i] <= ts[i + 1]}

CaptureOf(ts) == [present |-> TRUE, scale |-> 1, ts |-> ts]
World(l, r) ==
    [p \in AllPaths |->
        IF p = "left" THEN CaptureOf(l) ELSE IF p = "right" THEN CaptureOf(r) ELSE Missing]
Worlds == {World(l, r) : l, r \in Captures}

\* How the tools behave in one call: whether the summarizer is on PATH, fails,
\* prints decimal commas or points; whether the time-rewrite tool and the merge
\* tool succeed, fail (the first with or without leaving a partial output) or
\* are missing.
OkEnv(sep) ==
    [toolAvail |-> TRUE, summarizer |-> "ok", sep |-> sep,
     editcap |-> "ok", mergecap |-> "ok"]
Envs ==
    {OkEnv(","), OkEnv("."),
     [OkEnv(".") EXCEPT !.toolAvail = FALSE],
     [OkEnv(".") EXCEPT !.summarizer = "fail"],
     [OkEnv(",") EXCEPT !.editcap = "fail"],
     [OkEnv(",") EXCEPT !.editcap = "partial"],
     [OkEnv(".") EXCEPT !.editcap = "absent"],
     [OkEnv(",") EXCEPT !.mergecap = "fail"],
     [OkEnv(".") EXCEPT !.mergecap = "absent"]}

RECURSIVE Digits(_)
Digits(n) == IF n < 10 THEN <<DigitChars[n + 1]>> ELSE Digits(n \div 10) \o <<DigitChars[(n % 10) + 1]>>

\* A time in tenths as the summarizer prints it in seconds, with the
\* locale's decimal separator; a capture without records has no times.
FormatTime(t, sep) == Digits(t \div 10) \o <<sep>> \o Digits(t % 10)
NotAvailable == <<"n", "/", "a">>

HasFlag(opts, ch) ==
    \E i \in 1..Len(opts) : \E k \in 2..Len(opts[i]) : opts[i][k] = ch

\* The table the summarizer prints: the file name, then the fields the
\* options select (all of them when none is selected).
Fields(opts) ==
    LET all == ~(HasFlag(opts, "c") \/ HasFlag(opts, "a") \/ HasFlag(opts, "e"))
    IN  (IF all \/ HasFlag(opts, "c") THEN <<"Number of packets">> ELSE <<>>)
        \o (IF all \/ HasFlag(opts, "a") THEN <<"Start time">> ELSE <<>>)
        \o (IF all \/ HasFlag(opts, "e") THEN <<"End time">> ELSE <<>>)

FieldOf(c, name, sep) ==
    IF name = "Number of packets" THEN Digits(Len(c.ts))
    ELSE IF c.ts = <<>> THEN NotAvailable
    ELSE IF name = "Start time" THEN FormatTime(c.ts[1], sep)
    ELSE FormatTime(Last(c.ts), sep)

SummaryTable(world, sep, argv) ==
    LET fields == Fields(argv.opts)
    IN  <<<<Key("File name")>> \o [k \in 1..Len(fields) |-> Key(fields[k])]>>
        \o [i \in 1..Len(argv.paths) |->
               <<Key(argv.paths[i])>>
               \o [k \in 1..Len(fields) |-> FieldOf(world[argv.paths[i]], fields[k], sep)]]

Summarize(world, e, argv) ==
    IF ~e.toolAvail THEN Absent
    ELSE IF e.summarizer = "fail" \/ \E i \in 1..Len(argv.paths) : ~world[argv.paths[i]].present
    THEN Failed
    ELSE Printed(SummaryTable(world, e.sep, argv))

\* Running the summarizer on a command line: what the call's environment
\* dictates (a direct capinfos call), or what the tool finds in the files.
RunCapinfos(world, e, argv) ==
    IF e.summarizer = "scripted" THEN e.resp ELSE Summarize(world, e, argv)

\* Lines 84-101: capinfos once the tool has run on argv.  Running it is
\* "absent" (no executable: FileNotFoundError), "fail" (non-zero exit) or
\* "out" (exit 0 with .stdout).
CapinfosRan(argv, resp) ==
    IF resp.kind = "absent"
    THEN [res |-> Raise("FileNotFoundError", "capinfos"),
          calls |-> <<Spawn("capinfos", FALSE, argv)>>]
    ELSE IF resp.kind = "fail"
    THEN [res |-> Raise("RuntimeError", "stderr"),
          calls |-> <<Spawn("capinfos", TRUE, argv)>>]
    ELSE IF Malformed(resp.stdout)
    THEN [res |-> Raise("RuntimeError", "output format"),
          calls |-> <<Spawn("capinfos", TRUE, argv)>>]
    ELSE [res |-> Ok(ReturnShape(Infos(resp.stdout))),
          calls |-> <<Spawn("capinfos", TRUE, argv)>>]

\* Lines 76-83: the tool is run on the command line.
CapinfosRun(world, e, argv) == CapinfosRan(argv, RunCapinfos(world, e, argv))

\* capinfos(path, *opts): yields the result and the spawns.
Capinfos(world, e, path, opts) ==
    IF path.isList /\ Len(path.items) = 0
    THEN [res |-> Raise("RuntimeError", "no paths"), calls |-> <<>>]
    ELSE IF ~OptsValid(opts)
    THEN [res |-> Raise("RuntimeError", "opts"), calls |-> <<>>]
    ELSE CapinfosRun(world, e, [opts |-> FinalOpts(opts), paths |-> PathList(path)])

\* A synchronous operation as one step: its arguments, the environment it ran
\* in, and what it returned, spawned and left on disk.
Finish(name, a, e, r, world) ==
    /\ op' = name
    /\ args' = a
    /\ env' = e
    /\ fs' = world
    /\ calls' = r.calls
    /\ result' = r.res

\* Inputs of a direct capinfos call.
PathNames == {"left", "right"}
BarePaths == {[isList |-> FALSE, items |-> <<p>>] : p \in PathNames}
ListPaths == {[isList |-> TRUE, items |-> ps] : ps \in SeqsUpTo(PathNames, MaxPaths)}
OptChoices ==
    {<<>>, <<<<"-", "c">>>>, <<OptT, <<"-", "c">>>>, <<<<"-", "a", "e", "S">>, OptM>>,
     <<<<"c">>>>, <<<<"-", "c">>, <<>>>>, <<<<"-", "c">>, <<"c", "-">>>>}

\* What the summarizer may print for n paths: a header of two fields and a
\* row per path (the path, then a value), or something of another shape.
FieldTexts == {<<>>, <<"0">>, <<"1", ",", "5">>}
Header == <<Key("File name"), Key("Number of packets")>>
Tables(paths) ==
    {<<Header>> \o [i \in 1..Len(paths) |-> <<Key(paths[i]), vs[i]>>] :
        vs \in [1..Len(paths) -> FieldTexts]}
OddOutputs == {<<>>, Lines(<<Header>>), <<"x", NL, "y", NL>>}
Responses(paths) ==
    {Absent, Failed} \cup {Output(t) : t \in OddOutputs}
        \cup {Printed(t) : t \in Tables(paths)}

\* The environment of a direct capinfos call: the tool does as it is told.
Scripted(resp) ==
    [toolAvail |-> resp.kind # "absent", summarizer |-> "scripted", resp |-> resp]

CapinfosCall ==
    /\ AtRest
    /\ \E path \in BarePaths \cup ListPaths, opts \in OptChoices :
       \E resp \in Responses(PathList(path)) :
          Finish("capinfos", [path |-> path, opts |-> opts], Scripted(resp),
                 Capinfos(NoWorld, Scripted(resp), path, opts), NoWorld)
    /\ ResetReader

----
\* Timestamps in units of 1 / PosDen tenths, in which every offset shift_time
\* can compute is a whole number.
ToFine(t) == t * PosDen
FineTs(c) == [i \in 1..Len(c.ts) |-> c.ts[i] * (PosDen \div c.scale)]

\* The time-rewrite tool: every timestamp moved by t.
Shifted(c, t) ==
    [present |-> TRUE, scale |-> PosDen, ts |-> [i \in 1..Len(c.ts) |-> FineTs(c)[i] + t]]

\* The merge tool: records interleaved by timestamp, or with -a one input
\* after the other.
RECURSIVE Interleave(_, _)
Interleave(a, b) ==
    IF a = <<>> THEN b
    ELSE IF b = <<>> THEN a
    ELSE IF a[1] <= b[1] THEN <<a[1]>> \o Interleave(Tail(a), b)
    ELSE <<b[1]>> \o Interleave(a, Tail(b))

RECURSIVE Merged(_, _, _)
Merged(world, infiles, concat) ==
    IF infiles = <<>> THEN <<>>
    ELSE LET first == FineTs(world[infiles[1]])
             rest == Merged(world, Tail(infiles), concat)
         IN  IF concat THEN first \o rest ELSE Interleave(first, rest)

----
\* get_start_end (lines 114-123).
Bare(p) == [isList |-> FALSE, items |-> <<p>>]
OptC == <<"-", "c">>
OptAES == <<"-", "a", "e", "S">>

\* Lines 117-123 on what capinfos returned.
StartEndOf(c) ==
    IF c.res.status = "error" THEN c
    ELSE IF Key("Start time") \notin DOMAIN c.res.value.infos[1]
    THEN [res |-> Raise("KeyError", "Start time"), calls |-> c.calls]
    ELSE IF parse(c.res.value.infos[1][Key("Start time")]) = None
    THEN [res |-> Raise("ValueError", "float"), calls |-> c.calls]
    ELSE IF Key("End time") \notin DOMAIN c.res.value.infos[1]
    THEN [res |-> Raise("KeyError", "End time"), calls |-> c.calls]
    ELSE IF parse(c.res.value.infos[1][Key("End time")]) = None
    THEN [res |-> Raise("ValueError", "float"), calls |-> c.calls]
    ELSE [res |-> Ok(<<Val(parse(c.res.value.infos[1][Key("Start time")])),
                       Val(parse(c.res.value.infos[1][Key("End time")]))>>),
          calls |-> c.calls]

GetStartEnd(world, e, pcap) == StartEndOf(Capinfos(world, e, Bare(pcap), <<OptAES>>))

GetStartEndCall ==
    /\ AtRest
    /\ \E w \in Worlds, e \in Envs :
          Finish("get_start_end", [pcap |-> "left", world |-> w], e,
                 GetStartEnd(w, e, "left"), w)
    /\ ResetReader

----
\* count (lines 104-111).

\* count without the check for the tool.
Which_unchecked(e) == TRUE

\* Line 105: shutil.which("capinfos")
Which(e) == e.toolAvail

\* What the summarizer sees in a file pcap_reader can be pointed at: the
\* capture when it is one, else nothing it can read.
Readable(f) == f.exists /\ f.gz # "damaged" /\ f.fmt \in {"A", "B"}
CountWorld(f) ==
    [NoWorld EXCEPT !["left"] =
        IF Readable(f) THEN CaptureOf([i \in 1..f.recs |-> 0]) ELSE Missing]

\* Line 111 on what capinfos returned.
CountOf(c) ==
    IF c.res.status = "error" THEN c
    ELSE IF Key("Number of packets") \notin DOMAIN c.res.value.infos[1]
    THEN [res |-> Raise("KeyError", "Number of packets"), calls |-> c.calls]
    ELSE IF ParseInt(c.res.value.infos[1][Key("Number of packets")]) = None
    THEN [res |-> Raise("ValueError", "int"), calls |-> c.calls]
    ELSE [res |-> Ok(ParseInt(c.res.value.infos[1][Key("Number of packets")])),
          calls |-> c.calls]

\* Lines 110-111.
CountByTool(world, e, path) == CountOf(Capinfos(world, e, Bare(path), <<OptC>>))

\* count(path): with the tool on PATH it asks the tool; without it, it enters
\* pcap_reader and counts what the reader yields (Read, Leave).
CountCall ==
    /\ AtRest
    /\ \E f \in Files, e \in {OkEnv("."), [OkEnv(".") EXCEPT !.toolAvail = FALSE],
                             [OkEnv(".") EXCEPT !.summarizer = "fail"]} :
          IF Which(e)
          THEN /\ Finish("count", [path |-> "left", world |-> CountWorld(f)], e,
                         CountByTool(CountWorld(f), e, "left"), CountWorld(f))
               /\ file' = f
               /\ pc' = "idle"
               /\ UNCHANGED <<open, parsers, rewinds, reader, user, nread, raised>>
          ELSE /\ StartReader("count", "count", f)
               /\ args' = [path |-> "left", world |-> CountWorld(f)]
               /\ env' = e
               /\ fs' = CountWorld(f)
               /\ calls' = <<>>

----
\* An operation that writes files, as one step.
Done(name, a, e, r) == Finish(name, a, e, r, r.fs)

----
\* shift_time (lines 126-150).

\* Line 132: position: float = 0.0
DefaultPosition == Some(0)

\* The assertions without the range check of line 143.
ValidateShift_noRange(seconds, reference, position) ==
    IF seconds # None
    THEN IF reference = None /\ position = None THEN "ok" ELSE "seconds with reference"
    ELSE IF ~(reference # None /\ position # None) THEN "reference without position"
    ELSE "ok"

\* Lines 135-143: the assertions.  A position is given as its numerator.
ValidateShift(seconds, reference, position) ==
    IF seconds # None
    THEN IF reference = None /\ position = None THEN "ok" ELSE "seconds with reference"
    ELSE IF ~(reference # None /\ position # None) THEN "reference without position"
    ELSE IF ~(0 <= Val(position) /\ Val(position) <= PosDen) THEN "position range"
    ELSE "ok"

\* The offset measured from the reference's end instead of its start.
ShiftSeconds_fromEnd(start, end, position, origin) ==
    ToFine(end) + (end - start) * position - ToFine(origin)

\* Line 147, in units of 1 / PosDen tenths.
ShiftSeconds(start, end, position, origin) ==
    ToFine(start) + (end - start) * position - ToFine(origin)

\* Lines 149-150: the time-rewrite tool is run; its exit status is checked.
EditcapRan(world, e, run) ==
    IF e.editcap = "absent"
    THEN [res |-> Raise("FileNotFoundError", "editcap"), calls |-> run, fs |-> world]
    ELSE IF e.editcap = "partial"
    THEN [res |-> Raise("CalledProcessError", "editcap"), calls |-> run,
          fs |-> [world EXCEPT ![Last(run).argv.outfile] = Shifted(CaptureOf(<<>>), 0)]]
    ELSE IF e.editcap = "fail" \/ ~world[Last(run).argv.infile].present
    THEN [res |-> Raise("CalledProcessError", "editcap"), calls |-> run, fs |-> world]
    ELSE [res |-> Ok(None), calls |-> run,
          fs |-> [world EXCEPT ![Last(run).argv.outfile] =
                     Shifted(world[Last(run).argv.infile], Last(run).argv.t)]]

Editcap(world, e, infile, outfile, t, filetype, before) ==
    EditcapRan(world, e,
        Append(before,
            Spawn("editcap", e.editcap # "absent",
                  [t |-> t, F |-> filetype, infile |-> infile, outfile |-> outfile])))

\* Lines 145-150 on what the two get_start_end calls returned.
ShiftByReference(world, e, infile, outfile, position, filetype, o, r) ==
    IF o.res.status = "error"
    THEN [res |-> o.res, calls |-> o.calls, fs |-> world]
    ELSE IF r.res.status = "error"
    THEN [res |-> r.res, calls |-> o.calls \o r.calls, fs |-> world]
    ELSE Editcap(world, e, infile, outfile,
                 ShiftSeconds(r.res.value[1], r.res.value[2], position, o.res.value[1]),
                 filetype, o.calls \o r.calls)

\* Lines 135-150 on the outcome of the assertions.
ShiftChecked(world, e, infile, outfile, seconds, reference, position, filetype, v) ==
    IF v # "ok"
    THEN [res |-> Raise("AssertionError", v), calls |-> <<>>, fs |-> world]
    ELSE IF seconds # None
    THEN Editcap(world, e, infile, outfile, ToFine(Val(seconds)), filetype, <<>>)
    ELSE ShiftByReference(world, e, infile, outfile, Val(position), filetype,
                          GetStartEnd(world, e, infile),
                          GetStartEnd(world, e, Val(reference)))

ShiftTime(world, e, infile, outfile, seconds, reference, position, filetype) ==
    ShiftChecked(world, e, infile, outfile, seconds, reference, position, filetype,
                 ValidateShift(seconds, reference, position))

\* Offsets in tenths, references and positions (numerators) a caller may pass.
SecondsChoices == {None, Some(0 - 1), Some(2)}
ReferenceChoices == {None, Some("right")}
PositionChoices == {None} \cup {Some(k) : k \in (0 - 1)..(PosDen + 1)}

\* The capture files matter only to a call that gets past its assertions.
ShiftWorlds(seconds, reference, position) ==
    IF ValidateShift(seconds, reference, position) = "ok" /\ seconds = None
    THEN Worlds
    ELSE {World(l, l) : l \in Captures}

ShiftTimeCall ==
    /\ AtRest
    /\ \E seconds \in SecondsChoices, reference \in ReferenceChoices,
          position \in PositionChoices, e \in Envs :
       \E w \in ShiftWorlds(seconds, reference, position) :
          Done("shift_time",
               [infile |-> "left", outfile |-> "out", seconds |-> seconds,
                reference |-> reference, position |-> position, world |-> w],
               e, ShiftTime(w, e, "left", "out", seconds, reference, position, "pcap"))
    /\ ResetReader

----
\* mergecap (lines 153-162).
MergecapRan(world, e, run) ==
    IF e.mergecap = "absent"
    THEN [res |-> Raise("FileNotFoundError", "mergecap"), calls |-> run, fs |-> world]
    ELSE IF \/ e.mergecap = "fail"
            \/ \E i \in 1..Len(Last(run).argv.infiles) :
                  ~world[Last(run).argv.infiles[i]].present
    THEN [res |-> Raise("CalledProcessError", "mergecap"), calls |-> run, fs |-> world]
    ELSE [res |-> Ok(None), calls |-> run,
          fs |-> [world EXCEPT ![Last(run).argv.w] =
                     [present |-> TRUE, scale |-> PosDen,
                      ts |-> Merged(world, Last(run).argv.infiles, Last(run).argv.a)]]]

Mergecap(world, e, infiles, outfile, concat, filetype, before) ==
    MergecapRan(world, e,
        Append(before,
            Spawn("mergecap", e.mergecap # "absent",
                  [w |-> outfile, F |-> filetype, a |-> concat, infiles |-> infiles])))

MergecapCall ==
    /\ AtRest
    /\ \E w \in Worlds, e \in Envs, concat \in BOOLEAN :
          Done("mergecap",
               [infiles |-> <<"left", "right">>, outfile |-> "out",
                concat |-> concat, world |-> w],
               e, Mergecap(w, e, <<"left", "right">>, "out", concat, "pcap", <<>>))
    /\ ResetReader

----
\* merge_time_aligned (lines 165-175).

\* Line 171: tempfile.NamedTemporaryFile() creates an empty file and will
\* delete it when it is closed.
TempCreate(world) == [world EXCEPT !["tmp"] = CaptureOf(<<>>)]

\* Line 172: tmp.close() closes the file, which deletes it; the wrapper
\* remembers that close was called.
TempClose(world) == [world EXCEPT !["tmp"] = Missing]

\* Leaving the with block of line 171: the wrapper closes (and so deletes)
\* the file only if close was not called before.
TempExit(world, closeCalled) ==
    IF closeCalled THEN world ELSE [world EXCEPT !["tmp"] = Missing]

\* right merged as it is, not its shifted copy.
MergeInputs_unshifted(left, right, rightShifted) == <<left, right>>

\* Line 175: the files handed to the merge tool.
MergeInputs(left, right, rightShifted) == <<left, rightShifted>>

\* Leaving the with block with the outcome of its body.
TempLeave(r, closeCalled) ==
    [res |-> r.res, calls |-> r.calls, fs |-> TempExit(r.fs, closeCalled)]

\* Line 175 on what shift_time did; an error of shift_time skips it.
MergeShifted(e, left, right, rightShifted, outfile, filetype, st) ==
    IF st.res.status = "error" THEN st
    ELSE Mergecap(st.fs, e, MergeInputs(left, right, rightShifted), outfile, FALSE,
                  filetype, st.calls)

MergeTimeAligned(world, e, left, right, outfile, filetype) ==
    TempLeave(
        MergeShifted(e, left, right, "tmp", outfile, filetype,
            ShiftTime(TempClose(TempCreate(world)), e, right, "tmp", None, Some(left),
                      DefaultPosition, "pcap")),
        TRUE)

MergeTimeAlignedCall ==
    /\ AtRest
    /\ \E w \in Worlds, e \in Envs :
          Done("merge_time_aligned",
               [left |-> "left", right |-> "right", outfile |-> "out", world |-> w],
               e, MergeTimeAligned(w, e, "left", "right", "out", "pcap"))
    /\ ResetReader

----
\* C7: an empty list of paths, or an option that does not begin with "-",
\* makes capinfos fail before any process is spawned.
C7_ValidatedBeforeSpawn ==
    (/\ op = "capinfos"
     /\ \/ args.path.isList /\ args.path.items = <<>>
        \/ \E i \in 1..Len(args.opts) :
              args.opts[i] = <<>> \/ Head(args.opts[i]) # "-")
    => result.status = "error" /\ calls = <<>>

\* Two paths, a good option followed by one with the dash in the wrong place.
C7_Witness ==
    /\ op = "capinfos"
    /\ Len(args.path.items) = 2
    /\ args.opts = <<<<"-", "c">>, <<"c", "-">>>>
    /\ result.status = "error"
    /\ calls = <<>>

\* C9: given a header and one row per path, capinfos returns for n > 1 paths
\* a collection of n records, the i-th holding under every header field the
\* i-th row's value, and for one path (bare or in a list) one bare record.
C9_RecordsPerPath ==
    (op = "capinfos" /\ calls # <<>> /\ env.resp.table # <<>>) =>
        LET n == Len(args.path.items)
            t == env.resp.table
            v == result.value
        IN  /\ result.status = "ok"
            /\ v.isList = (n > 1)
            /\ Len(v.infos) = n
            /\ \A i \in 1..n : \A k \in 1..Len(t[1]) :
                  /\ t[1][k] \in DOMAIN v.infos[i]
                  /\ v.infos[i][t[1][k]] = t[i + 1][k]

\* Three paths whose rows differ, one of them with an empty value.
C9_Witness ==
    /\ op = "capinfos"
    /\ result.status = "ok"
    /\ args.path.items = <<"right", "left", "right">>
    /\ env.resp.table[2][2] = <<>>
    /\ env.resp.table[3][2] = <<"1", ",", "5">>
    /\ result.value.isList
    /\ Len(result.value.infos) = 3

\* The spawns of one tool among the calls of the operation.
CallsOf(tool) == {i \in 1..Len(calls) : calls[i].tool = tool}

\* C1: a call of shift_time with an offset, no reference and every other
\* parameter at its default passes validation and runs the time-rewrite tool
\* exactly once with -t <seconds>, with no start/end-time query.
C1_ExplicitOffsetAccepted ==
    (/\ op = "shift_time"
     /\ args.seconds # None
     /\ args.reference = None
     /\ args.position = Some(0))
    => /\ result.err.kind # "AssertionError"
       /\ Len(calls) = 1
       /\ calls[1].tool = "editcap"
       /\ calls[1].argv.t = ToFine(Val(args.seconds))

\* C2: shift_time fails before any external tool is run when both an offset
\* and a reference are given, when neither is given, and when a reference
\* comes with a position outside [0, 1].
C2_ModesRejected ==
    (/\ op = "shift_time"
     /\ \/ args.seconds # None /\ args.reference # None
        \/ args.seconds = None /\ args.reference = None
        \/ /\ args.seconds = None
           /\ args.reference # None
           /\ args.position # None
           /\ (Val(args.position) < 0 \/ Val(args.position) > PosDen))
    => result.status = "error" /\ calls = <<>> /\ fs = args.world

\* A reference with a position just above 1, every tool working.
C2_Witness ==
    /\ op = "shift_time"
    /\ args.seconds = None
    /\ args.reference = Some("right")
    /\ args.position = Some(PosDen + 1)
    /\ env = OkEnv(".")
    /\ result.err.kind = "AssertionError"
    /\ calls = <<>>

\* C3: whichever way merge_time_aligned ends, no file is left at the
\* temporary path that received the shifted copy of right.
C3_NoTempLeft == op = "merge_time_aligned" => ~fs["tmp"].present

\* C5: in reference mode the offset handed to the time-rewrite tool is
\* refStart + (refEnd - refStart) * position - origin, so that the shifted
\* file starts at refStart for position 0 and at refEnd for position 1.
C5_ReferenceOffset ==
    (op = "shift_time" /\ args.seconds = None /\ CallsOf("editcap") # {}) =>
        LET origin == args.world[args.infile].ts[1]
            refStart == args.world[Val(args.reference)].ts[1]
            refEnd == Last(args.world[Val(args.reference)].ts)
            k == Val(args.position)
            t == calls[Len(calls)].argv.t
        IN  /\ Cardinality(CallsOf("editcap")) = 1
            /\ t = PosDen * refStart + (refEnd - refStart) * k - PosDen * origin
            /\ (k = 0 => PosDen * origin + t = PosDen * refStart)
            /\ (k = PosDen => PosDen * origin + t = PosDen * refEnd)

\* Position 1/2 of a reference whose duration is an odd number of tenths,
\* times printed with decimal commas, and the file shifted backwards.
C5_Witness ==
    /\ op = "shift_time"
    /\ args.seconds = None
    /\ args.position = Some(1)
    /\ env.sep = ","
    /\ result.status = "ok"
    /\ args.world["right"].ts = <<0, 1>>
    /\ args.world["left"].ts = <<2, 2>>
    /\ calls[3].argv.t = 0 - 3
    /\ fs["out"].ts = <<1, 1>>

\* C6 as stated: the output of merge_time_aligned has count(left) +
\* count(right) records and its least timestamp is
\* min(start(left), start(right)).
C6_MinOfBothStarts ==
    (op = "merge_time_aligned" /\ result.status = "ok") =>
        LET l == args.world["left"].ts
            r == args.world["right"].ts
        IN  /\ Len(fs["out"].ts) = Len(l) + Len(r)
            /\ MinOf(Range(fs["out"].ts)) = ToFine(IF l[1] <= r[1] THEN l[1] ELSE r[1])

\* C6 amended: the output of merge_time_aligned has count(left) +
\* count(right) records and its least timestamp is start(left), right having
\* been moved to start there.
C6_MinIsLeftStart ==
    (op = "merge_time_aligned" /\ result.status = "ok") =>
        LET l == args.world["left"].ts
            r == args.world["right"].ts
        IN  /\ Len(fs["out"].ts) = Len(l) + Len(r)
            /\ MinOf(Range(fs["out"].ts)) = ToFine(l[1])

\* right starts before left and both have two records.
C6_Witness ==
    /\ op = "merge_time_aligned"
    /\ result.status = "ok"
    /\ args.world["left"].ts = <<1, 2>>
    /\ args.world["right"].ts = <<0, 2>>
    /\ fs["out"].ts = <<2, 2, 4, 6>>

\* C8: without the summarizer on PATH, count spawns nothing and returns the
\* number of records the reader yields; get_start_end fails and returns no
\* (start, end) pair.
C8_FallbackOnlyForCount ==
    /\ (op = "count" /\ ~env.toolAvail) =>
          /\ calls = <<>>
          /\ (pc = "closed" /\ reader # "none" /\ raised = NoErr =>
                 result = Ok(Some(file.recs)))
          /\ (result.status = "ok" => pc = "closed" /\ result.value = Some(file.recs))
    /\ (op = "get_start_end" /\ ~env.toolAvail) => result.status = "error"

\* count without the tool on a gzip-compressed FormatB file of two records.
C8_Witness ==
    /\ op = "count"
    /\ ~env.toolAvail
    /\ file.gz = "yes"
    /\ file.fmt = "B"
    /\ result = Ok(Some(2))
    /\ calls = <<>>

\* The operation has returned or raised and the caller goes on: each call is
\* independent of the ones before it.
Return ==
    /\ op # "none"
    /\ pc \in {"idle", "closed"}
    /\ op' = "none"
    /\ result' = NoResult
    /\ ResetOnce
    /\ ResetReader

Init ==
    /\ op = "none"
    /\ result = NoResult
    /\ OnceIdle
    /\ ReaderIdle

Next ==
    \/ ReaderCall
    \/ IterCall
    \/ ProbeOpen
    \/ ProbeRead
    \/ ParseA
    \/ ParseB
    \/ Read
    \/ Leave
    \/ Throw
    \/ CapinfosCall
    \/ GetStartEndCall
    \/ CountCall
    \/ ShiftTimeCall
    \/ MergecapCall
    \/ MergeTimeAlignedCall
    \/ Return

Spec == Init /\ [][Next]_vars

====
